---- MODULE Spec2Model ----
(***************************************************************************)
(* Model of the mermaidgen diagram builders: flowchart.Flowchart and       *)
(* gantt.Gantt.  Go strings are sequences of byte values, a nil pointer    *)
(* is the empty tuple and a non-nil pointer the one-element tuple holding  *)
(* what it points to.  An object that lives in a map of the diagram is     *)
(* referred to by its kind and identifier (the maps never drop or replace  *)
(* an entry, so that reference is the pointer's identity).                 *)
(***************************************************************************)
EXTENDS Integers, Sequences, FiniteSets, TLC

VARIABLES
    \* flowchart.Flowchart
    nodeStyles, edgeStyles, subgraphs, nodes, edges, items,
    Direction, DefaultEdgeStyle,
    \* the last call made on the Flowchart, with its result, and the log of
    \* the results the add calls returned
    fcCall, addLog, edgeLog,
    \* gantt.Gantt
    sectionsMap, sections, tasksMap, tasks, Title, AxisFormat,
    \* the last call made on the Gantt, with its result, the log of the results
    \* the add calls returned, and whether a task was added since a ListTasks
    gCall, taskLog, sectionLog, listPhase

varsFC == <<nodeStyles, edgeStyles, subgraphs, nodes, edges, items,
            Direction, DefaultEdgeStyle, fcCall, addLog, edgeLog>>

varsG == <<sectionsMap, sections, tasksMap, tasks, Title, AxisFormat,
           gCall, taskLog, sectionLog, listPhase>>

vars == <<varsFC, varsG>>

----------------------------------------------------------------------------
\* Bounds of the exploration.

\* AddEdge is explored while the flowchart holds fewer edges than this.
MaxEdges == 2

\* NewGantt is explored with at most this many optional parameters.
MaxInit == 3

----------------------------------------------------------------------------
\* Byte strings.

Nil == <<>>

Some(v) == <<v>>

NL == <<10>>                                            \* "\n"

RECURSIVE Concat(_)
\* The concatenation of a sequence of byte strings (text += ... in a loop).
Concat(ss) ==
    IF ss = <<>> THEN <<>> ELSE Head(ss) \o Concat(Tail(ss))

RECURSIVE Flatten(_, _, _)
\* The concatenation of the byte strings ss[lo], ..., ss[hi].
Flatten(ss, lo, hi) ==
    IF lo > hi THEN <<>>
    ELSE IF lo = hi THEN ss[lo]
    ELSE LET mid == (lo + hi) \div 2
         IN  Flatten(ss, lo, mid) \o Flatten(ss, mid + 1, hi)

RECURSIVE SumOf(_, _, _)
\* ns[lo] + ... + ns[hi]
SumOf(ns, lo, hi) ==
    IF lo > hi THEN 0
    ELSE IF lo = hi THEN ns[lo]
    ELSE LET mid == (lo + hi) \div 2
         IN  SumOf(ns, lo, mid) + SumOf(ns, mid + 1, hi)

\* The orders in which a range over a Go map with key set S can visit it.
MapOrders(S) ==
    {o \in [1..Cardinality(S) -> S] : \A i, j \in DOMAIN o : i # j => o[i] # o[j]}

----------------------------------------------------------------------------
\* Inputs.

DirectionTopDown   == <<84, 66>>                        \* `TB`
DirectionBottomUp  == <<66, 84>>                        \* `BT`
DirectionRightLeft == <<82, 76>>                        \* `RL`
DirectionLeftRight == <<76, 82>>                        \* `LR`

\* The directions the client assigns to fc.Direction.
Directions == {DirectionTopDown, DirectionLeftRight}

\* Identifiers the client passes: "A", "B" for nodes, "A" for subgraphs,
\* "x", "y" for node styles and "x" for edge styles.
NodeIds      == {<<65>>, <<66>>}
SubgraphIds  == {<<65>>}
NodeStyleIds == {<<120>>, <<121>>}
EdgeStyleIds == {<<120>>}

----------------------------------------------------------------------------
\* Rendering of the flowchart's parts.

\* Node.renderGraph for a node with the default shape and no text: id["id"]
NodeRenderGraph(n) ==
    n.id \o <<91, 34>> \o n.id \o <<34, 93>> \o NL

\* Subgraph.renderGraph for a subgraph without items of its own:
\* "subgraph id" ... "end"
SubgraphRenderGraph(s) ==
    <<115, 117, 98, 103, 114, 97, 112, 104, 32>> \o s.id \o NL
        \o <<101, 110, 100>> \o NL

\* item.renderGraph(), dispatched on the item's type.
RenderGraph(item) ==
    IF item.kind = "Node" THEN NodeRenderGraph(nodes[item.id])
    ELSE SubgraphRenderGraph(subgraphs[item.id])

\* NodeStyle.String: one classDef line.
NodeStyleString(s) ==
    <<99, 108, 97, 115, 115, 68, 101, 102, 32>> \o s.id
        \o <<32, 115, 116, 114, 111, 107, 101, 45, 119, 105, 100, 116, 104,
             58, 49, 112, 120>> \o NL

\* fmt.Sprintf(EdgeStyle.String(), target): one linkStyle line for target.
EdgeStyleString(s, target) ==
    <<108, 105, 110, 107, 83, 116, 121, 108, 101, 32>> \o target
        \o <<32, 115, 116, 114, 111, 107, 101, 45, 119, 105, 100, 116, 104,
             58, 49, 112, 120>> \o NL

\* Edge.String for an edge with the default shape, no text and no style:
\* from-->to
EdgeString(e) ==
    e.From.id \o <<45, 45, 62>> \o e.To.id \o NL

\* "graph <Direction>\n"
Header(d) == <<103, 114, 97, 112, 104, 32>> \o d \o NL

DefaultLine(des) ==
    IF des # Nil
    THEN EdgeStyleString(edgeStyles[des[1]], <<100, 101, 102, 97, 117, 108, 116>>)
    ELSE <<>>

StyleLines(order) ==
    Concat([i \in DOMAIN order |-> NodeStyleString(nodeStyles[order[i]])])

ItemLines(its) == Concat([i \in DOMAIN its |-> RenderGraph(its[i])])

EdgeLines(es) == Concat([i \in DOMAIN es |-> EdgeString(es[i])])

\* String with the edge lines written before the item lines.
StringEdgesFirst(order) ==
    <<103, 114, 97, 112, 104, 32>> \o Direction \o NL
        \o DefaultLine(DefaultEdgeStyle)
        \o StyleLines(order)
        \o NL
        \o EdgeLines(edges)
        \o NL
        \o ItemLines(items)

\* Flowchart.String, with `order` the order in which the range over the
\* nodeStyles map visits its keys.
String(order) ==
    Header(Direction)
        \o DefaultLine(DefaultEdgeStyle)
        \o StyleLines(order)
        \o NL
        \o ItemLines(items)
        \o NL
        \o EdgeLines(edges)

----------------------------------------------------------------------------
\* The export pipeline of LiveURL: json.Marshal, zlib, base64.URLEncoding.

IsCont(s, i) == i <= Len(s) /\ s[i] >= 128 /\ s[i] <= 191

InRange(s, i, lo, hi) == i <= Len(s) /\ s[i] >= lo /\ s[i] <= hi

\* utf8.DecodeRuneInString(s[i:]): the size of the rune that starts at s[i],
\* 0 when the bytes there are no valid UTF-8 (RuneError, size 1).
RuneSize(s, i) ==
    LET b == s[i]
    IN  IF b < 128 THEN 1
        ELSE IF b >= 194 /\ b <= 223 /\ IsCont(s, i + 1) THEN 2
        ELSE IF b = 224 /\ InRange(s, i + 1, 160, 191) /\ IsCont(s, i + 2) THEN 3
        ELSE IF b = 237 /\ InRange(s, i + 1, 128, 159) /\ IsCont(s, i + 2) THEN 3
        ELSE IF b >= 225 /\ b <= 239 /\ b # 237
                /\ IsCont(s, i + 1) /\ IsCont(s, i + 2) THEN 3
        ELSE IF b = 240 /\ InRange(s, i + 1, 144, 191)
                /\ IsCont(s, i + 2) /\ IsCont(s, i + 3) THEN 4
        ELSE IF b >= 241 /\ b <= 243
                /\ IsCont(s, i + 1) /\ IsCont(s, i + 2) /\ IsCont(s, i + 3) THEN 4
        ELSE IF b = 244 /\ InRange(s, i + 1, 128, 143)
                /\ IsCont(s, i + 2) /\ IsCont(s, i + 3) THEN 4
        ELSE 0

HexDigits == <<48, 49, 50, 51, 52, 53, 54, 55, 56, 57, 97, 98, 99, 100, 101, 102>>

\* What encoding/json writes for the ASCII byte b inside a string (with
\* HTML escaping, as json.Marshal does).
JSONEscapeByte(b) ==
    IF b = 34 \/ b = 92 THEN <<92, b>>
    ELSE IF b = 8 THEN <<92, 98>>
    ELSE IF b = 12 THEN <<92, 102>>
    ELSE IF b = 10 THEN <<92, 110>>
    ELSE IF b = 13 THEN <<92, 114>>
    ELSE IF b = 9 THEN <<92, 116>>
    ELSE IF b < 32 \/ b = 60 \/ b = 62 \/ b = 38
    THEN <<92, 117, 48, 48, HexDigits[(b \div 16) + 1], HexDigits[(b % 16) + 1]>>
    ELSE <<b>>

\* Whether s[i] is inside a multi-byte rune that starts before it.  A rune of
\* two to four bytes starts with a lead byte and continues with bytes
\* 0x80..0xBF, and a lead byte is never such a byte, so the runes that can
\* cover s[i] are those of the three positions before it.
InsideRune(s, i) ==
    \E k \in 1..3 : i - k >= 1 /\ RuneSize(s, i - k) > k

\* What encoding/json writes for the bytes of s from position i on, up to
\* the next rune: invalid UTF-8 becomes the escape \ufffd, U+2028 and U+2029
\* are escaped, other multi-byte runes are copied.
JSONStringPiece(s, i) ==
    LET size == RuneSize(s, i)
    IN  IF InsideRune(s, i) THEN <<>>
        ELSE IF size = 0 THEN <<92, 117, 102, 102, 102, 100>>
        ELSE IF size = 1 THEN JSONEscapeByte(s[i])
        ELSE IF size = 3 /\ s[i] = 226 /\ s[i + 1] = 128 /\ s[i + 2] \in {168, 169}
        THEN <<92, 117, 50, 48, 50, HexDigits[(s[i + 2] % 16) + 1]>>
        ELSE SubSeq(s, i, i + size - 1)

JSONString(s) ==
    <<34>> \o Flatten([i \in 1..Len(s) |-> JSONStringPiece(s, i)], 1, Len(s)) \o <<34>>

\* json.Marshal(dataJSON{Code: code, Mermaid: mermaidJSON{Theme: theme}})
MarshalDataJSON(code, theme) ==
    <<123, 34, 99, 111, 100, 101, 34, 58>> \o JSONString(code)
        \o <<44, 34, 109, 101, 114, 109, 97, 105, 100, 34, 58,
             123, 34, 116, 104, 101, 109, 101, 34, 58>> \o JSONString(theme)
        \o <<125, 125>>

AdlerMod == 65521

\* The Adler-32 checksum of s, as its four bytes in big-endian order: the
\* low half is 1 plus the sum of the bytes, the high half the sum of the low
\* halves after each byte, both modulo 65521.
Adler32(s) ==
    LET n == Len(s)
        lo == (1 + SumOf(s, 1, n)) % AdlerMod
        hi == (n + SumOf([i \in 1..n |-> (n - i + 1) * s[i]], 1, n)) % AdlerMod
    IN  <<hi \div 256, hi % 256, lo \div 256, lo % 256>>

\* The zlib stream written for data: the header of a level-9 deflate stream,
\* the data in one final stored block (LEN, its complement NLEN, the bytes),
\* and the Adler-32 of the data.  compress/flate chooses the block type; every
\* choice inflates to the same bytes, and the stored block is the one whose
\* content is written out here.
ZlibCompress(data) ==
    LET n == Len(data)
    IN  <<120, 218>>
            \o <<1, n % 256, n \div 256, 255 - (n % 256), 255 - (n \div 256)>>
            \o data
            \o Adler32(data)

Base64URLAlphabet ==
    <<65, 66, 67, 68, 69, 70, 71, 72, 73, 74, 75, 76, 77, 78, 79, 80, 81, 82,
      83, 84, 85, 86, 87, 88, 89, 90, 97, 98, 99, 100, 101, 102, 103, 104,
      105, 106, 107, 108, 109, 110, 111, 112, 113, 114, 115, 116, 117, 118,
      119, 120, 121, 122, 48, 49, 50, 51, 52, 53, 54, 55, 56, 57, 45, 95>>

\* base64.URLEncoding.EncodeToString(src): three bytes to four characters,
\* the last group padded with '='.
Base64URLEncode(src) ==
    LET n == Len(src)
        groups == (n + 2) \div 3
        byte(k) == IF k <= n THEN src[k] ELSE 0
        char(g, j) ==
            LET v == byte(3 * g + 1) * 65536 + byte(3 * g + 2) * 256 + byte(3 * g + 3)
                six == IF j = 1 THEN v \div 262144
                       ELSE IF j = 2 THEN (v \div 4096) % 64
                       ELSE IF j = 3 THEN (v \div 64) % 64
                       ELSE v % 64
            IN  IF 3 * g + j - 1 > n THEN 61 ELSE Base64URLAlphabet[six + 1]
    IN  [k \in 1..(4 * groups) |-> char((k - 1) \div 4, ((k - 1) % 4) + 1)]

LiveURLPrefix ==
    <<104, 116, 116, 112, 115, 58, 47, 47, 109, 101, 114, 109, 97, 105, 100,
      46, 108, 105, 118, 101, 47, 118, 105, 101, 119, 47, 35, 112, 97, 107,
      111, 58>>

ThemeDefault == <<100, 101, 102, 97, 117, 108, 116>>     \* "default"

\* The URL LiveURL builds from the rendered text.
ExportURL(code) ==
    LiveURLPrefix \o Base64URLEncode(ZlibCompress(MarshalDataJSON(code, ThemeDefault)))

----------------------------------------------------------------------------
\* The Flowchart's operations.

FCQuery(op, arg, ret) ==
    /\ fcCall' = [op |-> op, arg |-> arg, ret |-> ret]
    /\ UNCHANGED <<nodeStyles, edgeStyles, subgraphs, nodes, edges, items,
                   Direction, DefaultEdgeStyle, addLog, edgeLog>>

\* NewFlowchart
InitFC ==
    /\ Direction = DirectionTopDown
    /\ nodeStyles = <<>>
    /\ edgeStyles = <<>>
    /\ subgraphs = <<>>
    /\ nodes = <<>>
    /\ edges = <<>>
    /\ items = <<>>
    /\ DefaultEdgeStyle = Nil
    /\ fcCall = [op |-> "NewFlowchart", arg |-> <<>>, ret |-> <<>>]
    /\ addLog = <<>>
    /\ edgeLog = <<>>

NodeStyle(id) ==
    /\ nodeStyles' = IF id \in DOMAIN nodeStyles THEN nodeStyles
                     ELSE nodeStyles @@ (id :> [id |-> id, StrokeWidth |-> 1])
    /\ fcCall' = [op |-> "NodeStyle", arg |-> <<id>>,
                  ret |-> Some([kind |-> "NodeStyle", id |-> id])]
    /\ UNCHANGED <<edgeStyles, subgraphs, nodes, edges, items, Direction,
                   DefaultEdgeStyle, addLog, edgeLog>>

EdgeStyle(id) ==
    /\ edgeStyles' = IF id \in DOMAIN edgeStyles THEN edgeStyles
                     ELSE edgeStyles @@ (id :> [id |-> id, StrokeWidth |-> 1])
    /\ fcCall' = [op |-> "EdgeStyle", arg |-> <<id>>,
                  ret |-> Some([kind |-> "EdgeStyle", id |-> id])]
    /\ UNCHANGED <<nodeStyles, subgraphs, nodes, edges, items, Direction,
                   DefaultEdgeStyle, addLog, edgeLog>>

\* fc.DefaultEdgeStyle = fc.EdgeStyle(id), for a style already registered
SetDefaultEdgeStyle(id) ==
    /\ id \in DOMAIN edgeStyles
    /\ DefaultEdgeStyle' = Some(id)
    /\ fcCall' = [op |-> "SetDefaultEdgeStyle", arg |-> <<id>>, ret |-> <<>>]
    /\ UNCHANGED <<nodeStyles, edgeStyles, subgraphs, nodes, edges, items,
                   Direction, addLog, edgeLog>>

\* fc.Direction = d
SetDirection(d) ==
    /\ Direction' = d
    /\ fcCall' = [op |-> "SetDirection", arg |-> <<d>>, ret |-> <<>>]
    /\ UNCHANGED <<nodeStyles, edgeStyles, subgraphs, nodes, edges, items,
                   DefaultEdgeStyle, addLog, edgeLog>>

\* AddSubgraph that lists the subgraph for rendering again when the
\* identifier already exists.
AddSubgraphRelisting(id) ==
    LET alreadyExists == id \in DOMAIN subgraphs
        s == [kind |-> "Subgraph", id |-> id]
    IN  /\ subgraphs' = IF alreadyExists THEN subgraphs
                        ELSE subgraphs @@ (id :> [id |-> id])
        /\ items' = Append(items, s)
        /\ fcCall' = [op |-> "AddSubgraph", arg |-> <<id>>,
                      ret |-> IF alreadyExists THEN Nil ELSE Some(s)]
        /\ addLog' = IF alreadyExists THEN addLog ELSE Append(addLog, s)
        /\ UNCHANGED <<nodeStyles, edgeStyles, nodes, edges, Direction,
                       DefaultEdgeStyle, edgeLog>>

AddSubgraph(id) ==
    LET alreadyExists == id \in DOMAIN subgraphs
        s == [kind |-> "Subgraph", id |-> id]
    IN  IF alreadyExists
        THEN /\ fcCall' = [op |-> "AddSubgraph", arg |-> <<id>>, ret |-> Nil]
             /\ UNCHANGED <<nodeStyles, edgeStyles, subgraphs, nodes, edges,
                            items, Direction, DefaultEdgeStyle, addLog, edgeLog>>
        ELSE /\ subgraphs' = subgraphs @@ (id :> [id |-> id])
             /\ items' = Append(items, s)
             /\ fcCall' = [op |-> "AddSubgraph", arg |-> <<id>>, ret |-> Some(s)]
             /\ addLog' = Append(addLog, s)
             /\ UNCHANGED <<nodeStyles, edgeStyles, nodes, edges, Direction,
                            DefaultEdgeStyle, edgeLog>>

\* AddNode that looks the identifier up among the subgraphs as well.
AddNodeFlatNamespace(id) ==
    LET alreadyExists == id \in DOMAIN nodes \/ id \in DOMAIN subgraphs
        n == [kind |-> "Node", id |-> id]
    IN  IF alreadyExists
        THEN /\ fcCall' = [op |-> "AddNode", arg |-> <<id>>, ret |-> Nil]
             /\ UNCHANGED <<nodeStyles, edgeStyles, subgraphs, nodes, edges,
                            items, Direction, DefaultEdgeStyle, addLog, edgeLog>>
        ELSE /\ nodes' = nodes @@ (id :> [id |-> id, Shape |-> "NShapeRect"])
             /\ items' = Append(items, n)
             /\ fcCall' = [op |-> "AddNode", arg |-> <<id>>, ret |-> Some(n)]
             /\ addLog' = Append(addLog, n)
             /\ UNCHANGED <<nodeStyles, edgeStyles, subgraphs, edges, Direction,
                            DefaultEdgeStyle, edgeLog>>

\* AddNode that registers the node in the lookup map only.
AddNodeUnlisted(id) ==
    LET alreadyExists == id \in DOMAIN nodes
        n == [kind |-> "Node", id |-> id]
    IN  IF alreadyExists
        THEN /\ fcCall' = [op |-> "AddNode", arg |-> <<id>>, ret |-> Nil]
             /\ UNCHANGED <<nodeStyles, edgeStyles, subgraphs, nodes, edges,
                            items, Direction, DefaultEdgeStyle, addLog, edgeLog>>
        ELSE /\ nodes' = nodes @@ (id :> [id |-> id, Shape |-> "NShapeRect"])
             /\ fcCall' = [op |-> "AddNode", arg |-> <<id>>, ret |-> Some(n)]
             /\ addLog' = Append(addLog, n)
             /\ UNCHANGED <<nodeStyles, edgeStyles, subgraphs, edges, items,
                            Direction, DefaultEdgeStyle, edgeLog>>

AddNode(id) ==
    LET alreadyExists == id \in DOMAIN nodes
        n == [kind |-> "Node", id |-> id]
    IN  IF alreadyExists
        THEN /\ fcCall' = [op |-> "AddNode", arg |-> <<id>>, ret |-> Nil]
             /\ UNCHANGED <<nodeStyles, edgeStyles, subgraphs, nodes, edges,
                            items, Direction, DefaultEdgeStyle, addLog, edgeLog>>
        ELSE /\ nodes' = nodes @@ (id :> [id |-> id, Shape |-> "NShapeRect"])
             /\ items' = Append(items, n)
             /\ fcCall' = [op |-> "AddNode", arg |-> <<id>>, ret |-> Some(n)]
             /\ addLog' = Append(addLog, n)
             /\ UNCHANGED <<nodeStyles, edgeStyles, subgraphs, edges, Direction,
                            DefaultEdgeStyle, edgeLog>>

\* AddEdge that takes the length of the edge list as the index without
\* stepping back to the position of the edge it appended.
AddEdgeIndexFromLength(from, to) ==
    /\ Len(edges) < MaxEdges
    /\ from \in DOMAIN nodes
    /\ to \in DOMAIN nodes
    /\ LET f == [kind |-> "Node", id |-> from]
           t == [kind |-> "Node", id |-> to]
           e2 == [From |-> f, To |-> t, Shape |-> "EShapeArrow",
                  id |-> Len(edges) + 1]
       IN  /\ edges' = Append(edges, e2)
           /\ fcCall' = [op |-> "AddEdge", arg |-> <<from, to>>, ret |-> Some(e2)]
           /\ edgeLog' = Append(edgeLog, <<from, to>>)
    /\ UNCHANGED <<nodeStyles, edgeStyles, subgraphs, nodes, items, Direction,
                   DefaultEdgeStyle, addLog>>

\* AddEdge(from, to) for two nodes of this flowchart
AddEdge(from, to) ==
    /\ Len(edges) < MaxEdges
    /\ from \in DOMAIN nodes
    /\ to \in DOMAIN nodes
    /\ LET f == [kind |-> "Node", id |-> from]
           t == [kind |-> "Node", id |-> to]
           e == [From |-> f, To |-> t, Shape |-> "EShapeArrow"]
           appended == Append(edges, e @@ ("id" :> 0))
           e2 == [From |-> f, To |-> t, Shape |-> "EShapeArrow",
                  id |-> Len(appended) - 1]
       IN  /\ edges' = [appended EXCEPT ![Len(appended)] = e2]
           /\ fcCall' = [op |-> "AddEdge", arg |-> <<from, to>>, ret |-> Some(e2)]
           /\ edgeLog' = Append(edgeLog, <<from, to>>)
    /\ UNCHANGED <<nodeStyles, edgeStyles, subgraphs, nodes, items, Direction,
                   DefaultEdgeStyle, addLog>>

GetEdge(index) ==
    FCQuery("GetEdge", <<index>>,
            IF index < 0 \/ Len(edges) <= index THEN Nil
            ELSE Some(edges[index + 1]))

ListEdges ==
    FCQuery("ListEdges", <<>>, Some([i \in 1..Len(edges) |-> edges[i]]))

CallString ==
    \E order \in MapOrders(DOMAIN nodeStyles) :
        FCQuery("String", <<>>, Some(String(order)))

LiveURL ==
    \E order \in MapOrders(DOMAIN nodeStyles) :
        FCQuery("LiveURL", <<>>, Some(ExportURL(String(order))))

\* The calls on a Flowchart.
NextFC ==
    \/ \E id \in NodeStyleIds : NodeStyle(id) /\ UNCHANGED varsG
    \/ \E id \in EdgeStyleIds : EdgeStyle(id) /\ UNCHANGED varsG
    \/ \E id \in EdgeStyleIds : SetDefaultEdgeStyle(id) /\ UNCHANGED varsG
    \/ \E d \in Directions : SetDirection(d) /\ UNCHANGED varsG
    \/ \E id \in SubgraphIds : AddSubgraph(id) /\ UNCHANGED varsG
    \/ \E id \in NodeIds : AddNode(id) /\ UNCHANGED varsG
    \/ \E from, to \in NodeIds : AddEdge(from, to) /\ UNCHANGED varsG
    \/ \E index \in -1..(MaxEdges + 1) : GetEdge(index) /\ UNCHANGED varsG
    \/ ListEdges /\ UNCHANGED varsG
    \/ CallString /\ UNCHANGED varsG

\* The calls that build the rendered text, and the two that export it.
NextURL ==
    \/ \E id \in NodeStyleIds : NodeStyle(id) /\ UNCHANGED varsG
    \/ \E id \in SubgraphIds : AddSubgraph(id) /\ UNCHANGED varsG
    \/ \E id \in NodeIds : AddNode(id) /\ UNCHANGED varsG
    \/ \E from, to \in NodeIds : AddEdge(from, to) /\ UNCHANGED varsG
    \/ CallString /\ UNCHANGED varsG
    \/ LiveURL /\ UNCHANGED varsG

----------------------------------------------------------------------------
\* gantt.Gantt

\* Identifiers the client passes: "a", "ab", "b" for tasks, "s", "r" for
\* sections.
TaskIds    == {<<97>>, <<97, 98>>, <<98>>}
SectionIds == {<<115>>, <<114>>}

FormatTime24 == <<37, 72, 58, 37, 77>>                  \* `%H:%M`

\* Values the client passes as optional parameters of NewGantt, each with its
\* dynamic type: a string (empty or "T"), an axisFormat (`%H:%M` or empty) and
\* an int.
InitValues ==
    { [type |-> "string", val |-> <<>>],
      [type |-> "string", val |-> <<84>>],
      [type |-> "axisFormat", val |-> FormatTime24],
      [type |-> "axisFormat", val |-> <<>>],
      [type |-> "int", val |-> <<>>] }

\* The titles and axis formats the client assigns to g.Title and g.AxisFormat.
Titles      == {<<>>, <<84>>}
AxisFormats == {<<>>, FormatTime24}

InitLists == UNION {[1..n -> InitValues] : n \in 0..MaxInit}

\* a < b for two Go strings: bytewise lexicographic order, a proper prefix
\* first.
StringLess(a, b) ==
    \E k \in 1..Len(b) :
        /\ \A j \in 1..(k - 1) : j <= Len(a) /\ a[j] = b[j]
        /\ \/ k = Len(a) + 1
           \/ k <= Len(a) /\ a[k] < b[k]

\* NewGantt without the fallthrough from the AxisFormat case to the Title
\* case.
NewGanttNoFallthrough(init) ==
    LET g0 == [sectionsMap |-> <<>>, sections |-> <<>>, tasksMap |-> <<>>,
               tasks |-> <<>>, Title |-> <<>>, AxisFormat |-> <<>>]
        l == Len(init)
    IN  IF l > 1
        THEN IF init[2].type \in {"axisFormat", "string"}
             THEN [g |-> Some([g0 EXCEPT !.AxisFormat = init[2].val]), err |-> Nil]
             ELSE [g |-> Nil, err |-> Some("value for AxisFormat was no axisFormat")]
        ELSE IF l > 0
        THEN IF init[1].type = "string"
             THEN [g |-> Some([g0 EXCEPT !.Title = init[1].val]), err |-> Nil]
             ELSE [g |-> Nil, err |-> Some("value for Title was no string")]
        ELSE [g |-> Some(g0), err |-> Nil]

\* NewGantt(init...): the diagram and the error it returns.
NewGantt(init) ==
    LET g0 == [sectionsMap |-> <<>>, sections |-> <<>>, tasksMap |-> <<>>,
               tasks |-> <<>>, Title |-> <<>>, AxisFormat |-> <<>>]
        l == Len(init)
        axisOk == l > 1 => init[2].type \in {"axisFormat", "string"}
        g1 == IF l > 1 THEN [g0 EXCEPT !.AxisFormat = init[2].val] ELSE g0
        titleOk == l > 0 => init[1].type = "string"
        g2 == IF l > 0 THEN [g1 EXCEPT !.Title = init[1].val] ELSE g1
    IN  IF ~axisOk
        THEN [g |-> Nil, err |-> Some("value for AxisFormat was no axisFormat")]
        ELSE IF ~titleOk
        THEN [g |-> Nil, err |-> Some("value for Title was no string")]
        ELSE [g |-> Some(g2), err |-> Nil]

\* Task.String for a task without title, start, duration or flags:
\* "id : id"
TaskString(t) == t.id \o <<32, 58, 32>> \o t.id \o NL

\* Section.String: the "section id" line and then the section's tasks.
SectionString(sec) ==
    <<115, 101, 99, 116, 105, 111, 110, 32>> \o sec.id \o NL
        \o Concat([i \in DOMAIN sec.tasks |-> TaskString(tasksMap[sec.tasks[i]])])

\* fmt.Sprintln(keyword, value): the operands separated by a space, and "\n"
Sprintln2(keyword, value) == keyword \o <<32>> \o value \o NL

GanttHeader ==
    <<103, 97, 110, 116, 116, 10, 100, 97, 116, 101, 70, 111, 114, 109, 97,
      116, 32, 89, 89, 89, 89, 45, 77, 77, 45, 68, 68, 84, 72, 72, 58, 109,
      109, 58, 115, 115, 90, 10>>

\* Gantt.String with the sections written before the section-less tasks.
GanttStringSectionsFirst ==
    GanttHeader
        \o (IF AxisFormat # <<>>
            THEN Sprintln2(<<97, 120, 105, 115, 70, 111, 114, 109, 97, 116>>, AxisFormat)
            ELSE <<>>)
        \o (IF Title # <<>>
            THEN Sprintln2(<<116, 105, 116, 108, 101>>, Title)
            ELSE <<>>)
        \o Concat([i \in DOMAIN sections |-> SectionString(sectionsMap[sections[i]])])
        \o Concat([i \in DOMAIN tasks |-> TaskString(tasksMap[tasks[i]])])

\* Gantt.String
GanttString ==
    GanttHeader
        \o (IF AxisFormat # <<>>
            THEN Sprintln2(<<97, 120, 105, 115, 70, 111, 114, 109, 97, 116>>, AxisFormat)
            ELSE <<>>)
        \o (IF Title # <<>>
            THEN Sprintln2(<<116, 105, 116, 108, 101>>, Title)
            ELSE <<>>)
        \o Concat([i \in DOMAIN tasks |-> TaskString(tasksMap[tasks[i]])])
        \o Concat([i \in DOMAIN sections |-> SectionString(sectionsMap[sections[i]])])

RECURSIVE InsertDown(_, _)
\* The inner loop of the insertion sort sort.Slice runs on a short slice:
\* for j := i; j > 0 && less(j, j-1); j-- { swap(j, j-1) }
InsertDown(a, j) ==
    IF j > 1 /\ StringLess(a[j], a[j - 1])
    THEN InsertDown([a EXCEPT ![j] = a[j - 1], ![j - 1] = a[j]], j - 1)
    ELSE a

RECURSIVE InsertionSort(_, _)
\* for i := 1; i < n; i++ { ... }, with i counted from 1 here
InsertionSort(a, i) ==
    IF i > Len(a) THEN a ELSE InsertionSort(InsertDown(a, i), i + 1)

\* sort.Slice(allTasks, func(i, j int) bool { return allTasks[i].id < allTasks[j].id })
SortSlice(a) == InsertionSort(a, 2)

\* ListTasks without the sort: the tasks in the order the map yields them.
ListTasksUnsorted(order) == order

\* Gantt.ListTasks, with `order` the order in which the range over tasksMap
\* visits its keys.
ListTasksOf(order) == SortSlice(order)

\* taskNew(id, g, section, init): the error it returns.
TaskNewFails(id) == id \in DOMAIN tasksMap

\* sectionNew(id, g): the error it returns.
SectionNewFails(id) == id \in DOMAIN sectionsMap

GQuery(op, arg, ret) ==
    /\ gCall' = [op |-> op, arg |-> arg, ret |-> ret]
    /\ UNCHANGED <<sectionsMap, sections, tasksMap, tasks, Title, AxisFormat,
                   taskLog, sectionLog, listPhase>>

\* g, _ := NewGantt()
InitG ==
    /\ sectionsMap = <<>>
    /\ sections = <<>>
    /\ tasksMap = <<>>
    /\ tasks = <<>>
    /\ Title = <<>>
    /\ AxisFormat = <<>>
    /\ gCall = [op |-> "NewGantt", arg |-> <<>>, ret |-> NewGantt(<<>>)]
    /\ taskLog = <<>>
    /\ sectionLog = <<>>
    /\ listPhase = "unlisted"

\* g, err := NewGantt(init...); the client goes on with the new diagram when
\* there is one and keeps the diagram it had otherwise.
CallNewGantt(init) ==
    LET r == NewGantt(init)
    IN  /\ gCall' = [op |-> "NewGantt", arg |-> init, ret |-> r]
        /\ IF r.g # Nil
           THEN /\ sectionsMap' = r.g[1].sectionsMap
                /\ sections' = r.g[1].sections
                /\ tasksMap' = r.g[1].tasksMap
                /\ tasks' = r.g[1].tasks
                /\ Title' = r.g[1].Title
                /\ AxisFormat' = r.g[1].AxisFormat
                /\ taskLog' = <<>>
                /\ sectionLog' = <<>>
                /\ listPhase' = "unlisted"
           ELSE UNCHANGED <<sectionsMap, sections, tasksMap, tasks, Title,
                            AxisFormat, taskLog, sectionLog, listPhase>>

AddSection(id) ==
    IF SectionNewFails(id)
    THEN /\ gCall' = [op |-> "AddSection", arg |-> <<id>>,
                      ret |-> [val |-> Nil, err |-> Some("exists")]]
         /\ UNCHANGED <<sectionsMap, sections, tasksMap, tasks, Title,
                        AxisFormat, taskLog, sectionLog, listPhase>>
    ELSE /\ sectionsMap' = sectionsMap @@ (id :> [id |-> id, tasks |-> <<>>])
         /\ sections' = Append(sections, id)
         /\ gCall' = [op |-> "AddSection", arg |-> <<id>>,
                      ret |-> [val |-> Some(id), err |-> Nil]]
         /\ sectionLog' = Append(sectionLog, id)
         /\ UNCHANGED <<tasksMap, tasks, Title, AxisFormat, taskLog, listPhase>>

AddTask(id) ==
    IF TaskNewFails(id)
    THEN /\ gCall' = [op |-> "AddTask", arg |-> <<id>>,
                      ret |-> [val |-> Nil, err |-> Some("exists")]]
         /\ UNCHANGED <<sectionsMap, sections, tasksMap, tasks, Title,
                        AxisFormat, taskLog, sectionLog, listPhase>>
    ELSE /\ tasksMap' = tasksMap @@ (id :> [id |-> id, section |-> Nil])
         /\ tasks' = Append(tasks, id)
         /\ gCall' = [op |-> "AddTask", arg |-> <<id>>,
                      ret |-> [val |-> Some(id), err |-> Nil]]
         /\ taskLog' = Append(taskLog, id)
         /\ listPhase' = IF listPhase = "unlisted" THEN "unlisted" ELSE "added"
         /\ UNCHANGED <<sectionsMap, sections, Title, AxisFormat, sectionLog>>

\* g.GetSection(sec).AddTask(id), for a section of the diagram
SectionAddTask(sec, id) ==
    /\ sec \in DOMAIN sectionsMap
    /\ IF TaskNewFails(id)
       THEN /\ gCall' = [op |-> "Section.AddTask", arg |-> <<sec, id>>,
                         ret |-> [val |-> Nil, err |-> Some("exists")]]
            /\ UNCHANGED <<sectionsMap, sections, tasksMap, tasks, Title,
                           AxisFormat, taskLog, sectionLog, listPhase>>
       ELSE /\ tasksMap' = tasksMap @@ (id :> [id |-> id, section |-> Some(sec)])
            /\ sectionsMap' =
                   [sectionsMap EXCEPT ![sec].tasks = Append(@, id)]
            /\ gCall' = [op |-> "Section.AddTask", arg |-> <<sec, id>>,
                         ret |-> [val |-> Some(id), err |-> Nil]]
            /\ listPhase' = IF listPhase = "unlisted" THEN "unlisted" ELSE "added"
            /\ UNCHANGED <<sections, tasks, Title, AxisFormat, taskLog, sectionLog>>

CallGanttString == GQuery("String", <<>>, Some(GanttString))

ListTasks ==
    \E order \in MapOrders(DOMAIN tasksMap) :
        /\ gCall' = [op |-> "ListTasks", arg |-> <<listPhase>>,
                     ret |-> Some(ListTasksOf(order))]
        /\ listPhase' = "listed"
        /\ UNCHANGED <<sectionsMap, sections, tasksMap, tasks, Title,
                       AxisFormat, taskLog, sectionLog>>

\* g.Title = t
SetTitle(t) ==
    /\ Title' = t
    /\ gCall' = [op |-> "SetTitle", arg |-> <<t>>, ret |-> Nil]
    /\ UNCHANGED <<sectionsMap, sections, tasksMap, tasks, AxisFormat,
                   taskLog, sectionLog, listPhase>>

\* g.AxisFormat = f
SetAxisFormat(f) ==
    /\ AxisFormat' = f
    /\ gCall' = [op |-> "SetAxisFormat", arg |-> <<f>>, ret |-> Nil]
    /\ UNCHANGED <<sectionsMap, sections, tasksMap, tasks, Title,
                   taskLog, sectionLog, listPhase>>

\* The calls on a Gantt.
NextG ==
    \/ \E t \in Titles : SetTitle(t) /\ UNCHANGED varsFC
    \/ \E f \in AxisFormats : SetAxisFormat(f) /\ UNCHANGED varsFC
    \/ \E id \in SectionIds : AddSection(id) /\ UNCHANGED varsFC
    \/ \E id \in TaskIds : AddTask(id) /\ UNCHANGED varsFC
    \/ \E sec \in SectionIds, id \in TaskIds :
           SectionAddTask(sec, id) /\ UNCHANGED varsFC
    \/ CallGanttString /\ UNCHANGED varsFC
    \/ ListTasks /\ UNCHANGED varsFC

\* The constructor, on every list of optional parameters.
NextNewGantt ==
    \E init \in InitLists : CallNewGantt(init) /\ UNCHANGED varsFC

Init == InitFC /\ InitG

Spec == Init /\ [][NextFC]_vars

SpecURL == Init /\ [][NextURL]_vars

SpecGantt == Init /\ [][NextG]_vars

SpecNewGantt == Init /\ [][NextNewGantt]_vars

----------------------------------------------------------------------------
\* Properties.

NodeRef(id) == [kind |-> "Node", id |-> id]

SubgraphRef(id) == [kind |-> "Subgraph", id |-> id]

\* C1: an AddNode with an identifier a node of the flowchart already holds,
\* and an AddSubgraph with an identifier a subgraph already holds, returns nil
\* and leaves the node map, the subgraph map, the edge list and the render
\* list as they were.
C1_DuplicateAddChangesNothing ==
    [][ ( \/ fcCall'.op = "AddNode" /\ fcCall'.arg[1] \in DOMAIN nodes
          \/ fcCall'.op = "AddSubgraph" /\ fcCall'.arg[1] \in DOMAIN subgraphs )
        => /\ fcCall'.ret = Nil
           /\ nodes' = nodes
           /\ subgraphs' = subgraphs
           /\ edges' = edges
           /\ items' = items ]_vars

\* C1's case: a duplicate AddSubgraph has just returned nil on a flowchart
\* that holds nodes, a subgraph and an edge.
C1_Witness ==
    /\ fcCall.op = "AddSubgraph"
    /\ fcCall.ret = Nil
    /\ Len(items) >= 3
    /\ Len(edges) >= 1

\* C2: two calls of String with no call in between return the same text.
C2_StringTwiceSameText ==
    [][ (fcCall.op = "String" /\ fcCall'.op = "String")
        => fcCall'.ret = fcCall.ret ]_vars

\* The edge the k-th AddEdge call (k from 0) made, with index k.
CalledEdge(k) ==
    [From |-> NodeRef(edgeLog[k + 1][1]), To |-> NodeRef(edgeLog[k + 1][2]),
     Shape |-> "EShapeArrow", id |-> k]

\* C3: the edge of the k-th AddEdge call has index k in every state, ListEdges
\* returns the edges in call order, and GetEdge(i) returns the edge with index
\* i for 0 <= i < number of edges and nil for every other i.
C3_EdgeIndexIsCallOrder ==
    /\ Len(edges) = Len(edgeLog)
    /\ \A k \in 0..(Len(edgeLog) - 1) : edges[k + 1] = CalledEdge(k)
    /\ fcCall.op = "ListEdges"
           => fcCall.ret[1] = [k \in 1..Len(edgeLog) |-> CalledEdge(k - 1)]
    /\ fcCall.op = "GetEdge"
           => LET i == fcCall.arg[1]
              IN  IF 0 <= i /\ i < Len(edgeLog)
                  THEN fcCall.ret = Some(CalledEdge(i))
                  ELSE fcCall.ret = Nil

\* C3's case: GetEdge(1) has returned the second of two different edges.
C3_Witness ==
    /\ fcCall.op = "GetEdge"
    /\ fcCall.arg[1] = 1
    /\ fcCall.ret # Nil
    /\ edgeLog[1] # edgeLog[2]

\* The lines of an item a successful add call returned.
AddedItemText(ref) ==
    IF ref.kind = "Node"
    THEN ref.id \o <<91, 34>> \o ref.id \o <<34, 93, 10>>
    ELSE <<115, 117, 98, 103, 114, 97, 112, 104, 32>> \o ref.id
             \o <<10, 101, 110, 100, 10>>

\* C4: String writes the header, the default edge style line if a default
\* edge style is set, one line per node style, an empty line, the items in
\* the order of their successful add calls, an empty line and the edges in
\* index order; for a new flowchart the text is "graph TB\n\n\n".
C4_StringOrder ==
    fcCall.op = "String" =>
        /\ \E order \in MapOrders(DOMAIN nodeStyles) :
               fcCall.ret[1] =
                   <<103, 114, 97, 112, 104, 32>> \o Direction \o <<10>>
                       \o (IF DefaultEdgeStyle # Nil
                           THEN EdgeStyleString(edgeStyles[DefaultEdgeStyle[1]],
                                                <<100, 101, 102, 97, 117, 108, 116>>)
                           ELSE <<>>)
                       \o Concat([i \in DOMAIN order |->
                                      NodeStyleString(nodeStyles[order[i]])])
                       \o <<10>>
                       \o Concat([i \in DOMAIN addLog |-> AddedItemText(addLog[i])])
                       \o <<10>>
                       \o Concat([k \in DOMAIN edgeLog |->
                                      edgeLog[k][1] \o <<45, 45, 62>>
                                          \o edgeLog[k][2] \o <<10>>])
        /\ ( /\ Direction = DirectionTopDown
             /\ DefaultEdgeStyle = Nil
             /\ DOMAIN nodeStyles = {}
             /\ addLog = <<>>
             /\ edgeLog = <<>> )
               => fcCall.ret[1] = <<103, 114, 97, 112, 104, 32, 84, 66, 10, 10, 10>>

\* C4's case: String has rendered a flowchart with a default edge style, a
\* node style, a subgraph added before a node, and an edge.
C4_Witness ==
    /\ fcCall.op = "String"
    /\ DefaultEdgeStyle # Nil
    /\ DOMAIN nodeStyles # {}
    /\ Len(addLog) >= 2
    /\ addLog[1].kind = "Subgraph"
    /\ addLog[2].kind = "Node"
    /\ Len(edgeLog) >= 1

\* C8, as claimed: no node and subgraph of the flowchart carry the same
\* identifier.
C8_OneFlatNamespace ==
    DOMAIN nodes \cap DOMAIN subgraphs = {}

\* C8, amended: AddNode(id) returns nil and adds nothing exactly when a node
\* already carries id, and otherwise adds the node, whether or not a subgraph
\* carries id; AddSubgraph(id) likewise with the subgraphs.
C8_NamespacePerKind ==
    [][ /\ fcCall'.op = "AddNode" =>
               LET id == fcCall'.arg[1]
               IN  IF id \in DOMAIN nodes
                   THEN fcCall'.ret = Nil /\ nodes' = nodes /\ items' = items
                   ELSE /\ fcCall'.ret = Some(NodeRef(id))
                        /\ DOMAIN nodes' = DOMAIN nodes \cup {id}
                        /\ items' = Append(items, NodeRef(id))
        /\ fcCall'.op = "AddSubgraph" =>
               LET id == fcCall'.arg[1]
               IN  IF id \in DOMAIN subgraphs
                   THEN fcCall'.ret = Nil /\ subgraphs' = subgraphs /\ items' = items
                   ELSE /\ fcCall'.ret = Some(SubgraphRef(id))
                        /\ DOMAIN subgraphs' = DOMAIN subgraphs \cup {id}
                        /\ items' = Append(items, SubgraphRef(id)) ]_vars

\* C8's case: AddNode has added a node under the identifier of a subgraph
\* that was added before it.
C8_Witness ==
    /\ fcCall.op = "AddNode"
    /\ fcCall.ret # Nil
    /\ \E i, j \in DOMAIN items :
           /\ i < j
           /\ items[i] = SubgraphRef(fcCall.arg[1])
           /\ items[j] = NodeRef(fcCall.arg[1])

\* C10: the render list holds each node of the node map and each subgraph of
\* the subgraph map exactly once and nothing else.
C10_ItemsMatchMaps ==
    /\ Len(items) = Cardinality(DOMAIN nodes) + Cardinality(DOMAIN subgraphs)
    /\ \A id \in DOMAIN nodes :
           Cardinality({i \in DOMAIN items : items[i] = NodeRef(id)}) = 1
    /\ \A id \in DOMAIN subgraphs :
           Cardinality({i \in DOMAIN items : items[i] = SubgraphRef(id)}) = 1
    /\ \A i \in DOMAIN items :
           \/ items[i].kind = "Node" /\ items[i].id \in DOMAIN nodes
           \/ items[i].kind = "Subgraph" /\ items[i].id \in DOMAIN subgraphs

\* C10's case: a failing AddNode on a flowchart that holds two nodes, a
\* subgraph, an edge and styles of both kinds.
C10_Witness ==
    /\ fcCall.op = "AddNode"
    /\ fcCall.ret = Nil
    /\ Cardinality(DOMAIN nodes) = 2
    /\ DOMAIN subgraphs # {}
    /\ edges # <<>>
    /\ DOMAIN nodeStyles # {}
    /\ DOMAIN edgeStyles # {}

\* The way back from the URL, as the viewer takes it: base64url-decode,
\* inflate, JSON-parse.

\* The six bits a character of the base64url alphabet stands for, -1 for
\* any other character.
Base64URLValue(c) ==
    IF c >= 65 /\ c <= 90 THEN c - 65
    ELSE IF c >= 97 /\ c <= 122 THEN c - 71
    ELSE IF c >= 48 /\ c <= 57 THEN c + 4
    ELSE IF c = 45 THEN 62
    ELSE IF c = 95 THEN 63
    ELSE -1

\* base64url-decoding of a padded text: Nil when it is malformed.
Base64URLDecode(text) ==
    LET n == Len(text)
        pad == IF n >= 2 /\ text[n] = 61 /\ text[n - 1] = 61 THEN 2
               ELSE IF n >= 1 /\ text[n] = 61 THEN 1
               ELSE 0
        six(k) == IF k > n - pad THEN 0 ELSE Base64URLValue(text[k])
        group(g) == six(4 * g + 1) * 262144 + six(4 * g + 2) * 4096
                        + six(4 * g + 3) * 64 + six(4 * g + 4)
        byte(k) == LET v == group((k - 1) \div 3)
                       j == (k - 1) % 3
                   IN  IF j = 0 THEN v \div 65536
                       ELSE IF j = 1 THEN (v \div 256) % 256
                       ELSE v % 256
    IN  IF n % 4 # 0 \/ \E k \in 1..(n - pad) : Base64URLValue(text[k]) < 0
        THEN Nil
        ELSE Some([k \in 1..((n \div 4) * 3 - pad) |-> byte(k)])

\* Inflating a zlib stream that holds one final stored block: Nil when the
\* header, the block's length fields or the checksum are wrong.
ZlibDecompress(z) ==
    LET n == Len(z)
        len == z[4] + 256 * z[5]
        data == SubSeq(z, 8, 7 + len)
    IN  IF /\ n >= 11
           /\ z[1] % 16 = 8
           /\ (z[1] * 256 + z[2]) % 31 = 0
           /\ (z[2] \div 32) % 2 = 0
           /\ z[3] = 1
           /\ z[6] = 255 - z[4]
           /\ z[7] = 255 - z[5]
           /\ n = 11 + len
           /\ SubSeq(z, 8 + len, n) = Adler32(data)
        THEN Some(data)
        ELSE Nil

\* The number of backslashes that stand directly before s[i].
BackslashesBefore(s, i) ==
    CHOOSE k \in 0..(i - 1) :
        /\ \A m \in 1..k : s[i - m] = 92
        /\ k = i - 1 \/ s[i - k - 1] # 92

\* Whether s[i] is a backslash that starts an escape of a JSON string.
EscapeStart(s, i) ==
    i >= 1 /\ s[i] = 92 /\ BackslashesBefore(s, i) % 2 = 0

\* Whether s[i] belongs to an escape that starts before it: the character
\* after the backslash, and the four hex digits of a \u escape.
InsideEscape(s, i) ==
    \/ EscapeStart(s, i - 1)
    \/ \E k \in 2..5 : i - k >= 1 /\ s[i - k + 1] = 117 /\ EscapeStart(s, i - k)

HexValue(c) ==
    IF c >= 48 /\ c <= 57 THEN c - 48
    ELSE IF c >= 97 /\ c <= 102 THEN c - 87
    ELSE IF c >= 65 /\ c <= 70 THEN c - 55
    ELSE -1

\* The UTF-8 encoding of the code point cp of the basic plane; a surrogate
\* half becomes U+FFFD.
EncodeRune(cp) ==
    IF cp < 128 THEN <<cp>>
    ELSE IF cp < 2048 THEN <<192 + (cp \div 64), 128 + (cp % 64)>>
    ELSE IF cp >= 55296 /\ cp <= 57343 THEN <<239, 191, 189>>
    ELSE <<224 + (cp \div 4096), 128 + ((cp \div 64) % 64), 128 + (cp % 64)>>

\* Whether the escape that starts at s[i] is one JSON knows.
EscapeOk(s, i) ==
    /\ i + 1 <= Len(s)
    /\ \/ s[i + 1] \in {34, 92, 47, 98, 102, 110, 114, 116}
       \/ /\ s[i + 1] = 117
          /\ i + 5 <= Len(s)
          /\ \A k \in 2..5 : HexValue(s[i + k]) >= 0

\* The bytes the escape that starts at s[i] stands for.
EscapeValue(s, i) ==
    LET e == s[i + 1]
    IN  IF e = 98 THEN <<8>>
        ELSE IF e = 102 THEN <<12>>
        ELSE IF e = 110 THEN <<10>>
        ELSE IF e = 114 THEN <<13>>
        ELSE IF e = 116 THEN <<9>>
        ELSE IF e = 117
        THEN EncodeRune(HexValue(s[i + 2]) * 4096 + HexValue(s[i + 3]) * 256
                            + HexValue(s[i + 4]) * 16 + HexValue(s[i + 5]))
        ELSE <<e>>

\* The JSON string that starts with the quote s[i]: its value and the
\* position after its closing quote.
ParseString(s, i) ==
    LET closing == {j \in (i + 1)..Len(s) :
                        s[j] = 34 /\ BackslashesBefore(s, j) % 2 = 0}
        e == CHOOSE j \in closing : \A k \in closing : j <= k
        piece(m) == IF InsideEscape(s, m) THEN <<>>
                    ELSE IF EscapeStart(s, m) THEN EscapeValue(s, m)
                    ELSE <<s[m]>>
    IN  IF i > Len(s) \/ s[i] # 34 \/ closing = {}
        THEN [ok |-> FALSE, val |-> <<>>, next |-> i]
        ELSE IF \E m \in (i + 1)..(e - 1) :
                    \/ s[m] < 32
                    \/ EscapeStart(s, m) /\ ~EscapeOk(s, m)
        THEN [ok |-> FALSE, val |-> <<>>, next |-> i]
        ELSE [ok |-> TRUE,
              val |-> Flatten([m \in (i + 1)..(e - 1) |-> piece(m)], i + 1, e - 1),
              next |-> e + 1]

JSONFail(i) ==
    [ok |-> FALSE, val |-> [type |-> "none", str |-> <<>>, members |-> <<>>],
     next |-> i]

RECURSIVE ParseValue(_, _), ParseMembers(_, _)
\* The JSON value that starts at s[i], a string or an object (the two kinds
\* of value the exported record holds): its value and the position after it.
ParseValue(s, i) ==
    IF i > Len(s) THEN JSONFail(i)
    ELSE IF s[i] = 34
    THEN LET r == ParseString(s, i)
         IN  IF r.ok
             THEN [ok |-> TRUE,
                   val |-> [type |-> "string", str |-> r.val, members |-> <<>>],
                   next |-> r.next]
             ELSE JSONFail(i)
    ELSE IF s[i] = 123
    THEN IF i + 1 <= Len(s) /\ s[i + 1] = 125
         THEN [ok |-> TRUE,
               val |-> [type |-> "object", str |-> <<>>, members |-> <<>>],
               next |-> i + 2]
         ELSE LET r == ParseMembers(s, i + 1)
              IN  IF r.ok /\ r.next <= Len(s) /\ s[r.next] = 125
                  THEN [ok |-> TRUE,
                        val |-> [type |-> "object", str |-> <<>>,
                                 members |-> r.val],
                        next |-> r.next + 1]
                  ELSE JSONFail(i)
    ELSE JSONFail(i)

\* The members "key":value,... that start at s[i].
ParseMembers(s, i) ==
    LET key == ParseString(s, i)
        v == ParseValue(s, key.next + 1)
        rest == ParseMembers(s, v.next + 1)
        member == [key |-> key.val, value |-> v.val]
    IN  IF ~key.ok \/ key.next > Len(s) \/ s[key.next] # 58 \/ ~v.ok
        THEN [ok |-> FALSE, val |-> <<>>, next |-> i]
        ELSE IF v.next <= Len(s) /\ s[v.next] = 44
        THEN IF rest.ok
             THEN [ok |-> TRUE, val |-> <<member>> \o rest.val, next |-> rest.next]
             ELSE [ok |-> FALSE, val |-> <<>>, next |-> i]
        ELSE [ok |-> TRUE, val |-> <<member>>, next |-> v.next]

\* JSON-parsing of a whole text: Nil when it is no JSON value.
JSONParse(s) ==
    LET r == ParseValue(s, 1)
    IN  IF r.ok /\ r.next = Len(s) + 1 THEN Some(r.val) ELSE Nil

\* Decoding a URL: the record behind its payload, Nil when the URL does not
\* start with the viewer's prefix or the payload does not decode.
DecodeURL(url) ==
    LET p == Len(LiveURLPrefix)
        payload == SubSeq(url, p + 1, Len(url))
        z == Base64URLDecode(payload)
        d == ZlibDecompress(z[1])
        j == JSONParse(d[1])
    IN  IF Len(url) < p \/ SubSeq(url, 1, p) # LiveURLPrefix THEN Nil
        ELSE IF z = Nil THEN Nil
        ELSE IF d = Nil THEN Nil
        ELSE j

KeyCode == <<99, 111, 100, 101>>                        \* "code"
KeyMermaid == <<109, 101, 114, 109, 97, 105, 100>>      \* "mermaid"
KeyTheme == <<116, 104, 101, 109, 101>>                 \* "theme"

\* Whether url is the viewer's prefix and a payload that decodes to a record
\* with exactly the keys code and mermaid, mermaid being {theme: "default"}
\* and code being text.
RoundTrips(url, text) ==
    LET r == DecodeURL(url)
        ms == r[1].members
        code == CHOOSE i \in DOMAIN ms : ms[i].key = KeyCode
        mermaid == CHOOSE i \in DOMAIN ms : ms[i].key = KeyMermaid
    IN  /\ r # Nil
        /\ r[1].type = "object"
        /\ Len(ms) = 2
        /\ {ms[i].key : i \in DOMAIN ms} = {KeyCode, KeyMermaid}
        /\ ms[mermaid].value.type = "object"
        /\ Len(ms[mermaid].value.members) = 1
        /\ ms[mermaid].value.members[1].key = KeyTheme
        /\ ms[mermaid].value.members[1].value.type = "string"
        /\ ms[mermaid].value.members[1].value.str = ThemeDefault
        /\ ms[code].value.type = "string"
        /\ ms[code].value.str = text

\* C9: the URL of LiveURL decodes to the record whose code is the text String
\* returns on the same, unmodified flowchart.
C9_LiveURLRoundTrip ==
    [][ (fcCall.op = "LiveURL" /\ fcCall'.op = "String")
        => RoundTrips(fcCall.ret[1], fcCall'.ret[1]) ]_vars

\* The URL of LiveURL decodes to the record whose code is the text of the
\* String call LiveURL made.
LiveURLDecodesToItsRendering ==
    fcCall.op = "LiveURL" =>
        \E order \in MapOrders(DOMAIN nodeStyles) :
            RoundTrips(fcCall.ret[1], String(order))

\* C5: Gantt.String writes the two header lines, the axisFormat line exactly
\* when AxisFormat is not empty, the title line exactly when Title is not
\* empty, the section-less tasks in AddTask order and then the sections in
\* AddSection order; for a new Gantt the text is the two header lines.
C5_GanttStringOrder ==
    gCall.op = "String" =>
        /\ gCall.ret[1] =
               GanttHeader
                   \o (IF AxisFormat = <<>> THEN <<>>
                       ELSE <<97, 120, 105, 115, 70, 111, 114, 109, 97, 116, 32>>
                                \o AxisFormat \o <<10>>)
                   \o (IF Title = <<>> THEN <<>>
                       ELSE <<116, 105, 116, 108, 101, 32>> \o Title \o <<10>>)
                   \o Concat([i \in DOMAIN taskLog |->
                                  taskLog[i] \o <<32, 58, 32>> \o taskLog[i] \o <<10>>])
                   \o Concat([i \in DOMAIN sectionLog |->
                                  SectionString(sectionsMap[sectionLog[i]])])
        /\ ( /\ AxisFormat = <<>>
             /\ Title = <<>>
             /\ DOMAIN tasksMap = {}
             /\ DOMAIN sectionsMap = {} )
               => gCall.ret[1] = GanttHeader

\* C5's case: String has rendered a Gantt with a title, an axis format, two
\* section-less tasks and two sections, one of them with a task.
C5_Witness ==
    /\ gCall.op = "String"
    /\ Title # <<>>
    /\ AxisFormat # <<>>
    /\ Len(taskLog) = 2
    /\ Len(sectionLog) = 2
    /\ \E sec \in DOMAIN sectionsMap : sectionsMap[sec].tasks # <<>>

\* C6: ListTasks returns every task of the task map exactly once, in strictly
\* ascending order of identifier.
C6_ListTasksSorted ==
    gCall.op = "ListTasks" =>
        LET l == gCall.ret[1]
        IN  /\ Len(l) = Cardinality(DOMAIN tasksMap)
            /\ {l[i] : i \in DOMAIN l} = DOMAIN tasksMap
            /\ \A i, j \in DOMAIN l : i < j => StringLess(l[i], l[j])

\* C6's case: ListTasks has returned three tasks, called again after a task
\* was added since the call before; "b" was added first and without a
\* section, and a section holds a task.
C6_Witness ==
    /\ gCall.op = "ListTasks"
    /\ gCall.arg[1] = "added"
    /\ Len(gCall.ret[1]) = 3
    /\ tasks # <<>>
    /\ tasks[1] = <<98>>
    /\ \E sec \in DOMAIN sectionsMap : sectionsMap[sec].tasks # <<>>

\* C7: NewGantt returns an error and no diagram when the first parameter is
\* no string or the second neither an axisFormat nor a string, and otherwise
\* no error and a diagram with the given Title and AxisFormat.
C7_NewGanttAllOrNothing ==
    gCall.op = "NewGantt" =>
        LET init == gCall.arg
            titleOk == Len(init) >= 1 => init[1].type = "string"
            axisOk == Len(init) >= 2 => init[2].type \in {"axisFormat", "string"}
            r == gCall.ret
        IN  IF titleOk /\ axisOk
            THEN /\ r.err = Nil
                 /\ r.g # Nil
                 /\ r.g[1].Title = (IF Len(init) >= 1 THEN init[1].val ELSE <<>>)
                 /\ r.g[1].AxisFormat = (IF Len(init) >= 2 THEN init[2].val ELSE <<>>)
                 /\ Title = r.g[1].Title
                 /\ AxisFormat = r.g[1].AxisFormat
            ELSE r.g = Nil /\ r.err # Nil

\* C7's case: NewGantt has refused a first parameter that is no string,
\* given with a valid second one.
C7_Witness ==
    /\ gCall.op = "NewGantt"
    /\ Len(gCall.arg) >= 2
    /\ gCall.arg[1].type = "int"
    /\ gCall.arg[2].type = "axisFormat"
    /\ gCall.ret.g = Nil
    /\ gCall.ret.err # Nil

====
